---------------------------- MODULE Spec2Model ----------------------------
(***************************************************************************)
(* Exam subsystem of AdaptLearningBE: the request handlers of              *)
(* exams/views.py and the serializers of exams/serializers.py, over the    *)
(* tables Exam, Question, ExamAttempt and Answer.                           *)
(*                                                                         *)
(* Three specifications share the variables:                               *)
(*   Spec        attempt life cycle and analytics, one request at a time   *)
(*   SpecConc    two submission requests interleaved statement by statement*)
(*   SpecManage  exam and question management                             *)
(*                                                                         *)
(* A nullable timestamp is NULL or "t".  A nullable number is a set of at  *)
(* most one integer, so that SQL's comparison with NULL (never true) falls *)
(* out of \E.  A float quotient n/d*100 is kept exact as the pair          *)
(* [num |-> n*100, den |-> d], and 0 as [num |-> 0, den |-> 1].            *)
(***************************************************************************)
EXTENDS Integers, Sequences, FiniteSets, TLC

VARIABLES
    exams,      \* Exam table: id -> [course, passing_marks]
    questions,  \* Question table: id -> [exam, marks, correct]
    attempts,   \* ExamAttempt table: sequence of rows, the id is the index
    answers,    \* Answer table: set of [attempt, question, answer_text]
    resp,       \* the last request and its response (Spec, SpecManage)
    reqs        \* the submission requests in flight (SpecConc)

vars == <<exams, questions, attempts, answers, resp, reqs>>

NULL == "null"
NoScore == {}

-----------------------------------------------------------------------------
(* Bounds *)

MaxStored == 2      \* ExamAttempt rows already stored when the run begins
MaxAttempts == 2    \* ExamAttempt rows in all

-----------------------------------------------------------------------------
(* Users, courses and enrolment: the accounts and courses applications *)

Users == {"s1", "s2", "t1", "t2"}

user_type(u) == IF u \in {"t1", "t2"} THEN "teacher" ELSE "student"

Courses == {"c1", "c2"}

instructor(c) == IF c = "c1" THEN "t1" ELSE "t2"

students(c) == IF c = "c1" THEN {"s1"} ELSE {"s2"}

-----------------------------------------------------------------------------
(* Responses *)

NoRow == [none |-> TRUE]
NoBody == [none |-> TRUE]

\* The number 0 as the analytics view returns it
Zero == [num |-> 0, den |-> 1]
NoResp == [op |-> "none"]

\* Exam.questions: the ids of the questions of exam e
exam_questions(e) == {q \in DOMAIN questions : questions[q].exam = e}

\* ExamAttempt.answers
attempt_answers(pk) == {a \in answers : a.attempt = pk}

-----------------------------------------------------------------------------
(* Start: ExamAttemptView *)

\* Column defaults of a new ExamAttempt row
AttemptDefaults == [is_completed |-> FALSE, score |-> NoScore, submitted_at |-> NULL]

\* ExamAttemptSerializer: exam, student, score and is_completed are read-only,
\* end_time is a writable field of the request
NewAttempt(student, exam, end_time) ==
    [exam |-> exam, student |-> student, end_time |-> end_time,
     is_completed |-> AttemptDefaults.is_completed,
     score |-> AttemptDefaults.score,
     submitted_at |-> AttemptDefaults.submitted_at]

\* exam.course.students.filter(id=self.request.user.id).exists()
IsEnrolled(user, e) == user \in students(exams[e].course)

\* The else branch evaluates permissions.PermissionDenied.  permissions is the
\* module rest_framework.permissions (line 2), which defines no
\* PermissionDenied (the class is rest_framework.exceptions.PermissionDenied,
\* imported bare at line 4): the lookup raises AttributeError and the request
\* ends with status 500.  Nothing is saved on that branch.
ExamAttemptView_perform_create(user, e, end_time) ==
    /\ Len(attempts) < MaxAttempts
    /\ IF IsEnrolled(user, e)
       THEN /\ attempts' = Append(attempts, NewAttempt(user, e, end_time))
            /\ resp' = [op |-> "start", user |-> user, exam |-> e,
                        kind |-> "ok", status |-> 201,
                        count_before |-> Len(attempts), changed |-> TRUE]
       ELSE /\ attempts' = attempts
            /\ resp' = [op |-> "start", user |-> user, exam |-> e,
                        kind |-> "AttributeError", status |-> 500,
                        count_before |-> Len(attempts), changed |-> FALSE]
    /\ UNCHANGED <<exams, questions, answers, reqs>>

-----------------------------------------------------------------------------
(* Submit: ExamSubmissionView and ExamSubmissionSerializer *)

\* The request bodies tried: lists of AnswerSerializer items
Ans(q, t) == [question |-> q, answer_text |-> t]

Payloads ==
    { <<>>,
      <<Ans("q1", "a")>>,
      <<Ans("q1", "a"), Ans("q2", "a")>>,
      <<Ans("q1", "a"), Ans("q2", "b")>>,
      <<Ans("q1", "a"), Ans("q1", "b"), Ans("q2", "a")>>,
      <<Ans("q1", "a"), Ans("q2", "a"), Ans("q3", "a")>>,
      <<Ans("q1", "a"), Ans("q2", "a"), Ans("q9", "a")>>,
      <<Ans("q3", "a")>> }

\* set(answer['question'].id for answer in data['answers'])
answered_questions(data) == {data[i].question : i \in DOMAIN data}

\* AnswerSerializer(many=True): the 'question' of every item is the primary
\* key of a stored Question
fields_valid(data) == \A i \in DOMAIN data : data[i].question \in DOMAIN questions

\* validate with != weakened to "names a question outside the exam": a
\* missing question passes
validateMutant(attempt, data) ==
    answered_questions(data) \subseteq exam_questions(attempt.exam)

\* ExamSubmissionSerializer.validate: TRUE when it returns data, FALSE when it
\* raises ValidationError("All questions must be answered.")
validate(attempt, data) ==
    answered_questions(data) = exam_questions(attempt.exam)

\* serializer.is_valid(raise_exception=True): the fields, then validate()
is_valid(attempt, data) == fields_valid(data) /\ validate(attempt, data)

\* The ownership test left out
is_ownerMutant(user, attempt) == TRUE

\* attempt.student != self.request.user, negated
is_owner(user, attempt) == attempt.student = user

\* The outcome of ExamSubmissionView.create(user, attempt, data).
\* perform_create calls serializer.save(); ExamSubmissionSerializer is a plain
\* Serializer that defines no create(), so save() raises NotImplementedError
\* and lines 170-176 are not reached.  No branch writes to a table.
ExamSubmissionView_create(user, attempt, data) ==
    IF ~is_owner(user, attempt)
    THEN [kind |-> "PermissionError", status |-> 403]
    ELSE IF attempt.is_completed
    THEN [kind |-> "InvalidStateError", status |-> 400]
    ELSE IF ~is_valid(attempt, data)
    THEN [kind |-> "ValidationError", status |-> 400]
    ELSE [kind |-> "NotImplementedError", status |-> 500]

SubmitAttempt(user, pk, data) ==
    LET out == ExamSubmissionView_create(user, attempts[pk], data)
    IN  /\ resp' = [op |-> "submit", user |-> user, pk |-> pk, data |-> data,
                    kind |-> out.kind, status |-> out.status, body |-> NoBody,
                    before |-> attempts[pk],
                    answers_before |-> attempt_answers(pk),
                    changed |-> FALSE]
        /\ UNCHANGED <<exams, questions, attempts, answers, reqs>>

-----------------------------------------------------------------------------
(* Analytics: StaffExamAnalyticsView *)

RECURSIVE SumScores(_)
\* The sum of the non-null scores of a set of attempt ids
SumScores(ids) ==
    IF ids = {} THEN 0
    ELSE LET i == CHOOSE x \in ids : TRUE
             s == IF attempts[i].score = NoScore THEN 0
                  ELSE CHOOSE v \in attempts[i].score : TRUE
         IN  s + SumScores(ids \ {i})

\* ExamAttempt.objects.filter(exam=exam)
exam_attempts(e) == {i \in DOMAIN attempts : attempts[i].exam = e}

\* attempts.filter(submitted_at__isnull=False)
completed_filter(ids) == {i \in ids : attempts[i].submitted_at # NULL}

\* attempts.count()
total_count(ids) == Cardinality(ids)

\* attempts.filter(score__gte=exam.passing_marks): over every attempt of the
\* exam; a null score matches no comparison
passing_filter(ids, passing_marks) ==
    {i \in ids : \E v \in attempts[i].score : v >= passing_marks}

\* aggregate(avg_score=Avg('score'))['avg_score'] or 0: Avg skips null scores
\* and is None over no row; None and 0.0 both give 0
average_score(ids) ==
    LET scored == {i \in ids : attempts[i].score # NoScore}
    IN  IF scored = {} \/ SumScores(scored) = 0 THEN Zero
        ELSE [num |-> SumScores(scored), den |-> Cardinality(scored)]

\* (count / completed_attempts * 100) if completed_attempts > 0 else 0
passing_rate(ids, passing_marks) ==
    LET completed_attempts == Cardinality(completed_filter(ids))
    IN  IF completed_attempts > 0
        THEN [num |-> Cardinality(passing_filter(ids, passing_marks)) * 100,
              den |-> completed_attempts]
        ELSE Zero

\* request.user.user_type != 'teacher' or exam.course.instructor != request.user,
\* negated
can_view_analytics(user, e) ==
    user_type(user) = "teacher" /\ instructor(exams[e].course) = user

StaffExamAnalyticsView_get(user, e) ==
    /\ IF ~can_view_analytics(user, e)
       THEN resp' = [op |-> "analytics", user |-> user, exam |-> e,
                     kind |-> "PermissionError", status |-> 403,
                     body |-> NoBody, changed |-> FALSE]
       ELSE resp' = [op |-> "analytics", user |-> user, exam |-> e,
                     kind |-> "ok", status |-> 200,
                     body |-> [total_attempts |-> total_count(exam_attempts(e)),
                               completed_attempts |->
                                   Cardinality(completed_filter(exam_attempts(e))),
                               average_score |-> average_score(completed_filter(exam_attempts(e))),
                               passing_rate |->
                                   passing_rate(exam_attempts(e), exams[e].passing_marks)],
                     changed |-> FALSE]
    /\ UNCHANGED <<exams, questions, attempts, answers, reqs>>

-----------------------------------------------------------------------------
(* The stored data of Spec *)

\* Exam rows: e1 of course c1, e2 of course c2
InitExams ==
    [e \in {"e1", "e2"} |->
        IF e = "e1" THEN [course |-> "c1", passing_marks |-> 10]
                    ELSE [course |-> "c2", passing_marks |-> 5]]

\* Question rows: q1 (5 marks) and q2 (10 marks) of e1, q3 (5 marks) of e2;
\* the correct choice of each is "a"
InitQuestions ==
    [q \in {"q1", "q2", "q3"} |->
        IF q = "q1" THEN [exam |-> "e1", marks |-> 5, correct |-> "a"]
        ELSE IF q = "q2" THEN [exam |-> "e1", marks |-> 10, correct |-> "a"]
        ELSE [exam |-> "e2", marks |-> 5, correct |-> "a"]]

\* ExamAttempt rows of student s1 on exam e1 stored before the run: in
\* progress (nothing scored), or completed with a score.  No statement of
\* views.py or serializers.py writes submitted_at; a completed row carries it
\* null or set.
StoredRows ==
    { [exam |-> "e1", student |-> "s1", end_time |-> NULL,
       is_completed |-> FALSE, score |-> NoScore, submitted_at |-> NULL] }
    \cup
    { [exam |-> "e1", student |-> "s1", end_time |-> "t",
       is_completed |-> TRUE, score |-> {sc}, submitted_at |-> sa] :
         sc \in {5, 10}, sa \in {NULL, "t"} }

RECURSIVE SeqsUpTo(_, _)
SeqsUpTo(S, n) ==
    IF n = 0 THEN {<<>>}
    ELSE LET shorter == SeqsUpTo(S, n - 1)
         IN  shorter \cup {Append(s, x) : s \in shorter, x \in S}

Init ==
    /\ exams = InitExams
    /\ questions = InitQuestions
    /\ attempts \in SeqsUpTo(StoredRows, MaxStored)
    /\ answers = {}
    /\ resp = NoResp
    /\ reqs = <<>>

Start == \E u \in Users, e \in DOMAIN exams, t \in {NULL, "t"} :
            ExamAttemptView_perform_create(u, e, t)

Submit == \E u \in Users, pk \in DOMAIN attempts, d \in Payloads :
            SubmitAttempt(u, pk, d)

Analytics == \E u \in Users, e \in DOMAIN exams : StaffExamAnalyticsView_get(u, e)

Next == Start \/ Submit \/ Analytics

Spec == Init /\ [][Next]_vars

-----------------------------------------------------------------------------
(* Properties of Spec.  resp is the last request with its response, and the *)
(* tables are as that request left them.                                    *)

Rejections == {"PermissionError", "InvalidStateError", "ValidationError"}

\* The last request was a submission by the attempt's owner
OwnerSubmitted == resp.op = "submit" /\ resp.user = resp.before.student

\* The submitted question ids are exactly the exam's
CompleteAnswerSet ==
    answered_questions(resp.data) = exam_questions(resp.before.exam)

RECURSIVE SumMarks(_, _)
\* The marks of the questions in qs that data answers with the correct choice
\* and nothing else
SumMarks(qs, data) ==
    IF qs = {} THEN 0
    ELSE LET q == CHOOSE x \in qs : TRUE
             given == {data[i].answer_text : i \in {j \in DOMAIN data : data[j].question = q}}
             m == IF given = {questions[q].correct} THEN questions[q].marks ELSE 0
         IN  m + SumMarks(qs \ {q}, data)

\* n/d = m/e for two quotients
RatEq(a, b) == a.num * b.den = b.num * a.den

\* C1: Submit is single-fire.  An owner's submission with a complete answer
\* set succeeds on an attempt in progress and leaves it completed; on a
\* completed attempt it fails with InvalidStateError and leaves the attempt's
\* row (its score) and its answers as they were.  Two such calls in sequence
\* are the first case followed by the second.
C1_SingleFire ==
    (OwnerSubmitted /\ CompleteAnswerSet) =>
        IF ~resp.before.is_completed
        THEN /\ resp.kind = "ok"
             /\ attempts[resp.pk].is_completed
        ELSE /\ resp.kind = "InvalidStateError"
             /\ attempts[resp.pk] = resp.before
             /\ attempt_answers(resp.pk) = resp.answers_before

\* C3: a submission that passes the ownership, not-completed and question-set
\* checks completes the attempt: completion flag true, end_time set, score
\* non-null, exactly one Answer per question of the exam; the response holds
\* the score, the question count, the passing threshold and the attempt id.
C3_SubmitCompletes ==
    (resp.op = "submit" /\ resp.kind \notin Rejections) =>
        LET a == attempts[resp.pk]
        IN  /\ a.is_completed
            /\ a.end_time # NULL
            /\ a.score # NoScore
            /\ \A q \in exam_questions(a.exam) :
                 Cardinality({x \in attempt_answers(resp.pk) : x.question = q}) = 1
            /\ resp.body = [score |-> a.score,
                            totalQuestions |-> Cardinality(exam_questions(a.exam)),
                            passingScore |-> exams[a.exam].passing_marks,
                            attemptId |-> resp.pk]

\* C4: the score a submission that passes the checks writes to the attempt is
\* the sum of the marks of the questions answered correctly (15 for both of
\* q1, q2 correct, 5 for q1 alone).
C4_ScoreIsSumOfMarks ==
    (resp.op = "submit" /\ resp.kind \notin Rejections) =>
        attempts[resp.pk].score =
            {SumMarks(exam_questions(resp.before.exam), resp.data)}

\* C5: an owner's submission on an attempt in progress whose question ids are
\* not exactly the exam's fails with ValidationError, and the attempt stays in
\* progress with a null score and no Answer.
C5_WrongQuestionSetRejected ==
    (OwnerSubmitted /\ ~resp.before.is_completed /\ ~CompleteAnswerSet) =>
        /\ resp.kind = "ValidationError"
        /\ attempts[resp.pk] = resp.before
        /\ ~attempts[resp.pk].is_completed
        /\ attempts[resp.pk].score = NoScore
        /\ attempt_answers(resp.pk) = {}

\* The owner left out a question of the exam and was refused
C5_Witness ==
    /\ OwnerSubmitted /\ ~resp.before.is_completed
    /\ answered_questions(resp.data) # exam_questions(resp.before.exam)
    /\ answered_questions(resp.data) \subseteq exam_questions(resp.before.exam)
    /\ resp.kind = "ValidationError"

\* C6: a submission by anyone but the attempt's owner fails with
\* PermissionError, whatever the attempt's state and the answers, and leaves
\* the attempt's row and its answers as they were.
C6_NonOwnerRejected ==
    (resp.op = "submit" /\ resp.user # resp.before.student) =>
        /\ resp.kind = "PermissionError"
        /\ attempts[resp.pk] = resp.before
        /\ attempt_answers(resp.pk) = resp.answers_before

\* Another user sent a complete answer set for a completed attempt
C6_Witness ==
    /\ resp.op = "submit" /\ resp.user # resp.before.student
    /\ resp.before.is_completed
    /\ CompleteAnswerSet
    /\ resp.kind = "PermissionError"

\* C7: Start by a user not enrolled in the exam's course fails with
\* PermissionError and creates no attempt; Start by an enrolled student
\* appends exactly one attempt, of that student and exam, not completed and
\* with a null score.
C7_StartNeedsEnrolment ==
    resp.op = "start" =>
        IF resp.user \in students(exams[resp.exam].course)
        THEN /\ resp.kind = "ok"
             /\ Len(attempts) = resp.count_before + 1
             /\ attempts[Len(attempts)].student = resp.user
             /\ attempts[Len(attempts)].exam = resp.exam
             /\ ~attempts[Len(attempts)].is_completed
             /\ attempts[Len(attempts)].score = NoScore
        ELSE /\ resp.kind = "PermissionError"
             /\ Len(attempts) = resp.count_before

\* The passing rate C8 states, with the completed attempts being those in done
ClaimedPassingRate(done, passing_marks) ==
    LET passed == {i \in done : \E v \in attempts[i].score : v >= passing_marks}
    IN  IF done = {} THEN Zero
        ELSE [num |-> Cardinality(passed) * 100, den |-> Cardinality(done)]

-----------------------------------------------------------------------------
(* SpecConc: two submission requests, each running ExamSubmissionView.create *)
(* one statement at a time.  A request holds the row it read at line 160 in  *)
(* attempt and the row get_serializer_context read at line 155 in context.   *)

Requests == {"r1", "r2"}

Idle == [pc |-> "idle"]

Returned(r, kind, status) ==
    reqs' = [reqs EXCEPT ![r] = [@ EXCEPT !.pc = "done", !.kind = kind, !.status = status]]

Goto(r, pc) == reqs' = [reqs EXCEPT ![r].pc = pc]

db == <<exams, questions, attempts, answers>>

\* The request arrives: POST by user on attempt pk with body data
Arrive(r, user, pk, data) ==
    /\ reqs[r].pc = "idle"
    /\ reqs' = [reqs EXCEPT ![r] =
                   [pc |-> "l160", user |-> user, pk |-> pk, data |-> data,
                    attempt |-> NoRow, context |-> NoRow,
                    kind |-> "none", status |-> 0]]
    /\ UNCHANGED <<db, resp>>

\* attempt = ExamAttempt.objects.get(id=self.kwargs['pk'])
L160(r) ==
    /\ reqs[r].pc = "l160"
    /\ reqs' = [reqs EXCEPT ![r] = [@ EXCEPT !.pc = "l161", !.attempt = attempts[reqs[r].pk]]]
    /\ UNCHANGED <<db, resp>>

\* if attempt.student != self.request.user: return 403
L161(r) ==
    /\ reqs[r].pc = "l161"
    /\ IF ~is_owner(reqs[r].user, reqs[r].attempt)
       THEN Returned(r, "PermissionError", 403)
       ELSE Goto(r, "l163")
    /\ UNCHANGED <<db, resp>>

\* if attempt.is_completed: return 400
L163(r) ==
    /\ reqs[r].pc = "l163"
    /\ IF reqs[r].attempt.is_completed
       THEN Returned(r, "InvalidStateError", 400)
       ELSE Goto(r, "l166")
    /\ UNCHANGED <<db, resp>>

\* serializer = self.get_serializer(data=request.data): get_serializer_context
\* reads the attempt again
L166(r) ==
    /\ reqs[r].pc = "l166"
    /\ reqs' = [reqs EXCEPT ![r] = [@ EXCEPT !.pc = "l167", !.context = attempts[reqs[r].pk]]]
    /\ UNCHANGED <<db, resp>>

\* serializer.is_valid(raise_exception=True)
L167(r) ==
    /\ reqs[r].pc = "l167"
    /\ IF ~is_valid(reqs[r].context, reqs[r].data)
       THEN Returned(r, "ValidationError", 400)
       ELSE Goto(r, "l168")
    /\ UNCHANGED <<db, resp>>

\* self.perform_create(serializer): serializer.save() raises
\* NotImplementedError, the request ends with status 500
L168(r) ==
    /\ reqs[r].pc = "l168"
    /\ Returned(r, "NotImplementedError", 500)
    /\ UNCHANGED <<db, resp>>

InitConc ==
    /\ exams = InitExams
    /\ questions = InitQuestions
    /\ attempts \in {<<row>> : row \in StoredRows}
    /\ answers = {}
    /\ resp = NoResp
    /\ reqs = [r \in Requests |-> Idle]

Arrival ==
    \E r \in Requests, u \in Users, pk \in DOMAIN attempts, d \in Payloads :
        Arrive(r, u, pk, d)

Line160 == \E r \in Requests : L160(r)

Line161 == \E r \in Requests : L161(r)

Line163 == \E r \in Requests : L163(r)

Line166 == \E r \in Requests : L166(r)

Line167 == \E r \in Requests : L167(r)

Line168 == \E r \in Requests : L168(r)

NextConc ==
    Arrival \/ Line160 \/ Line161 \/ Line163 \/ Line166 \/ Line167 \/ Line168

SpecConc == InitConc /\ [][NextConc]_vars

\* Request r is the owner's, with a complete answer set, on an attempt that
\* was in progress when it was read
ValidOwnerRequest(r) ==
    /\ reqs[r].pc \notin {"idle", "l160"}
    /\ reqs[r].user = reqs[r].attempt.student
    /\ ~reqs[r].attempt.is_completed
    /\ answered_questions(reqs[r].data) = exam_questions(reqs[r].attempt.exam)

\* Both requests are past the check of lines 163-164 on the same attempt and
\* at the call of perform_create
BothPastGuard ==
    /\ reqs["r1"].pc = "l168" /\ reqs["r2"].pc = "l168"
    /\ reqs["r1"].pk = reqs["r2"].pk

\* C2: of two concurrent submissions of the same attempt (the owner's, with a
\* complete answer set, the attempt in progress), exactly one succeeds and
\* the other observes InvalidStateError.
C2_ExactlyOneSucceeds ==
    ( /\ reqs["r1"].pc = "done" /\ reqs["r2"].pc = "done"
      /\ reqs["r1"].pk = reqs["r2"].pk
      /\ ValidOwnerRequest("r1") /\ ValidOwnerRequest("r2") ) =>
        \/ reqs["r1"].kind = "ok" /\ reqs["r2"].kind = "InvalidStateError"
        \/ reqs["r2"].kind = "ok" /\ reqs["r1"].kind = "InvalidStateError"

-----------------------------------------------------------------------------
(* SpecManage: the exam and question management views.  A view that looks   *)
(* its object up in a filtered queryset answers 404 (NotFound) when the     *)
(* object is outside it.                                                    *)

ExamIds == {"e1", "e2"}
QuestionIds == {"q1", "q2"}
MarkValues == {5, 10}

insert(table, id, row) ==
    [x \in DOMAIN table \cup {id} |-> IF x = id THEN row ELSE table[x]]

remove(table, ids) == [x \in DOMAIN table \ ids |-> table[x]]

\* serializer.save(...) of a new Exam
create_exam(course, passing_marks) ==
    /\ ExamIds \ DOMAIN exams # {}
    /\ exams' = insert(exams, CHOOSE e \in ExamIds \ DOMAIN exams : TRUE,
                       [course |-> course, passing_marks |-> passing_marks])
    /\ questions' = questions

\* serializer.save() of an update of exam e
update_exam(e, passing_marks) ==
    /\ exams' = [exams EXCEPT ![e].passing_marks = passing_marks]
    /\ questions' = questions

\* instance.delete() of exam e, which takes the exam's questions with it
delete_exam(e) ==
    /\ exams' = remove(exams, {e})
    /\ questions' = remove(questions, exam_questions(e))

\* QuestionCreateSerializer.create
create_question(e, marks) ==
    /\ QuestionIds \ DOMAIN questions # {}
    /\ questions' = insert(questions, CHOOSE q \in QuestionIds \ DOMAIN questions : TRUE,
                           [exam |-> e, marks |-> marks, correct |-> "a"])
    /\ exams' = exams

\* QuestionCreateSerializer.update
update_question(q, marks) ==
    /\ questions' = [questions EXCEPT ![q].marks = marks]
    /\ exams' = exams

\* instance.delete() of question q
delete_question(q) ==
    /\ questions' = remove(questions, {q})
    /\ exams' = exams

\* The request is refused: nothing is written
refuse(op, user, course, kind, status) ==
    /\ resp' = [op |-> op, user |-> user, course |-> course,
                kind |-> kind, status |-> status, changed |-> FALSE]
    /\ UNCHANGED <<exams, questions>>

\* The request went through; changed tells whether a table differs after it
done(op, user, course, status) ==
    resp' = [op |-> op, user |-> user, course |-> course,
             kind |-> "ok", status |-> status,
             changed |-> (exams' # exams \/ questions' # questions)]

\* ExamListView.perform_create: line 48 evaluates permissions.PermissionDenied,
\* an AttributeError (see ExamAttemptView_perform_create)
ExamListView_perform_create(user, course, pm) ==
    /\ IF instructor(course) # user
       THEN refuse("exam_create", user, course, "AttributeError", 500)
       ELSE create_exam(course, pm) /\ done("exam_create", user, course, 201)
    /\ UNCHANGED <<attempts, answers, reqs>>

\* ExamDetailView.get_queryset
ExamDetailView_get_queryset(user) ==
    IF user_type(user) = "teacher"
    THEN {e \in DOMAIN exams : instructor(exams[e].course) = user}
    ELSE IF user_type(user) = "student"
    THEN {e \in DOMAIN exams : user \in students(exams[e].course)}
    ELSE {}

\* ExamDetailView, PUT or PATCH
ExamDetailView_update(user, e, pm) ==
    /\ IF e \notin ExamDetailView_get_queryset(user)
       THEN refuse("exam_update", user, exams[e].course, "NotFound", 404)
       ELSE update_exam(e, pm) /\ done("exam_update", user, exams[e].course, 200)
    /\ UNCHANGED <<attempts, answers, reqs>>

\* ExamDetailView, DELETE
ExamDetailView_destroy(user, e) ==
    /\ IF e \notin ExamDetailView_get_queryset(user)
       THEN refuse("exam_delete", user, exams[e].course, "NotFound", 404)
       ELSE delete_exam(e) /\ done("exam_delete", user, exams[e].course, 204)
    /\ UNCHANGED <<attempts, answers, reqs>>

\* ExamCreateView.perform_create: the exam is saved with the course of the URL
ExamCreateView_perform_create(user, course, pm) ==
    /\ IF user_type(user) # "teacher"
       THEN refuse("exam_create", user, course, "PermissionError", 403)
       ELSE create_exam(course, pm) /\ done("exam_create", user, course, 201)
    /\ UNCHANGED <<attempts, answers, reqs>>

\* ExamUpdateView.get_queryset, ExamDeleteView.get_queryset
instructor_queryset(user) == {e \in DOMAIN exams : instructor(exams[e].course) = user}

ExamUpdateView_update(user, e, pm) ==
    /\ IF e \notin instructor_queryset(user)
       THEN refuse("exam_update", user, exams[e].course, "NotFound", 404)
       ELSE update_exam(e, pm) /\ done("exam_update", user, exams[e].course, 200)
    /\ UNCHANGED <<attempts, answers, reqs>>

ExamDeleteView_destroy(user, e) ==
    /\ IF e \notin instructor_queryset(user)
       THEN refuse("exam_delete", user, exams[e].course, "NotFound", 404)
       ELSE delete_exam(e) /\ done("exam_delete", user, exams[e].course, 204)
    /\ UNCHANGED <<attempts, answers, reqs>>

\* QuestionListView.perform_create: line 115 evaluates
\* permissions.PermissionDenied, an AttributeError
QuestionListView_perform_create(user, e, marks) ==
    /\ IF instructor(exams[e].course) # user
       THEN refuse("question_create", user, exams[e].course, "AttributeError", 500)
       ELSE create_question(e, marks) /\ done("question_create", user, exams[e].course, 201)
    /\ UNCHANGED <<attempts, answers, reqs>>

\* QuestionDetailView, PUT or PATCH: queryset = Question.objects.all(), the
\* only permission class is IsAuthenticated
QuestionDetailView_update(user, q, marks) ==
    /\ update_question(q, marks)
    /\ done("question_update", user, exams[questions[q].exam].course, 200)
    /\ UNCHANGED <<attempts, answers, reqs>>

\* QuestionDetailView, DELETE
QuestionDetailView_destroy(user, q) ==
    /\ delete_question(q)
    /\ done("question_delete", user, exams[questions[q].exam].course, 204)
    /\ UNCHANGED <<attempts, answers, reqs>>

\* StaffExamCreateView.perform_create, with the id of a stored course
StaffExamCreateView_perform_create(user, course, pm) ==
    /\ IF user_type(user) # "teacher" \/ instructor(course) # user
       THEN refuse("exam_create", user, course, "PermissionError", 403)
       ELSE create_exam(course, pm) /\ done("exam_create", user, course, 201)
    /\ UNCHANGED <<attempts, answers, reqs>>

\* StaffExamUpdateView.get_object, StaffExamDeleteView.get_object: TRUE when
\* the exam is returned, FALSE when a Response object is returned in its place
staff_get_object(user, e) ==
    ~(user_type(user) # "teacher" \/ instructor(exams[e].course) # user)

\* StaffExamUpdateView: the Response returned by get_object is taken as the
\* instance, and serializer.save() fails on it with AttributeError
StaffExamUpdateView_update(user, e, pm) ==
    /\ IF ~staff_get_object(user, e)
       THEN refuse("exam_update", user, exams[e].course, "AttributeError", 500)
       ELSE update_exam(e, pm) /\ done("exam_update", user, exams[e].course, 200)
    /\ UNCHANGED <<attempts, answers, reqs>>

\* StaffExamDeleteView: instance.delete() on the Response fails with
\* AttributeError
StaffExamDeleteView_destroy(user, e) ==
    /\ IF ~staff_get_object(user, e)
       THEN refuse("exam_delete", user, exams[e].course, "AttributeError", 500)
       ELSE delete_exam(e) /\ done("exam_delete", user, exams[e].course, 204)
    /\ UNCHANGED <<attempts, answers, reqs>>

\* One exam of course c1 with one question; no attempt is stored
InitManage ==
    /\ exams = [e \in {"e1"} |-> InitExams[e]]
    /\ questions = [q \in {"q1"} |-> InitQuestions[q]]
    /\ attempts = <<>>
    /\ answers = {}
    /\ resp = NoResp
    /\ reqs = <<>>

QuestionUpdate ==
    \E u \in Users, q \in DOMAIN questions, m \in MarkValues :
        QuestionDetailView_update(u, q, m)

QuestionDelete ==
    \E u \in Users, q \in DOMAIN questions : QuestionDetailView_destroy(u, q)

QuestionCreate ==
    \E u \in Users, e \in DOMAIN exams, m \in MarkValues :
        QuestionListView_perform_create(u, e, m)

ExamCreate ==
    \E u \in Users, c \in Courses, pm \in MarkValues :
        ExamCreateView_perform_create(u, c, pm)

ExamListCreate ==
    \E u \in Users, c \in Courses, pm \in MarkValues :
        ExamListView_perform_create(u, c, pm)

StaffExamCreate ==
    \E u \in Users, c \in Courses, pm \in MarkValues :
        StaffExamCreateView_perform_create(u, c, pm)

ExamDetailUpdate ==
    \E u \in Users, e \in DOMAIN exams, pm \in MarkValues : ExamDetailView_update(u, e, pm)

ExamDetailDelete ==
    \E u \in Users, e \in DOMAIN exams : ExamDetailView_destroy(u, e)

ExamUpdate ==
    \E u \in Users, e \in DOMAIN exams, pm \in MarkValues : ExamUpdateView_update(u, e, pm)

ExamDelete ==
    \E u \in Users, e \in DOMAIN exams : ExamDeleteView_destroy(u, e)

StaffExamUpdate ==
    \E u \in Users, e \in DOMAIN exams, pm \in MarkValues :
        StaffExamUpdateView_update(u, e, pm)

StaffExamDelete ==
    \E u \in Users, e \in DOMAIN exams : StaffExamDeleteView_destroy(u, e)

NextManage ==
    \/ QuestionDelete \/ QuestionUpdate \/ QuestionCreate
    \/ ExamCreate \/ ExamListCreate \/ StaffExamCreate
    \/ ExamDetailUpdate \/ ExamDetailDelete
    \/ ExamUpdate \/ ExamDelete
    \/ StaffExamUpdate \/ StaffExamDelete

SpecManage == InitManage /\ [][NextManage]_vars

\* canManageExam: the user is a teacher and the instructor of the course
canManageExam(user, course) ==
    user_type(user) = "teacher" /\ instructor(course) = user

ManageOps == {"exam_create", "exam_update", "exam_delete",
              "question_create", "question_update", "question_delete"}

\* C9: a create, update or delete of an exam or a question by a user who is
\* not a teacher and the instructor of the exam's course is rejected with
\* PermissionError and changes nothing.
C9_OnlyInstructorManages ==
    (resp.op \in ManageOps /\ ~canManageExam(resp.user, resp.course)) =>
        /\ resp.kind = "PermissionError"
        /\ ~resp.changed

\* A user who may not manage the exam's course changed an exam or a question
UnauthorisedChange ==
    /\ resp.op \in ManageOps
    /\ ~canManageExam(resp.user, resp.course)
    /\ resp.changed

=============================================================================
